---- MODULE Spec2Model ----
(***************************************************************************)
(* Model of src/script.js: the chat client's conversation history, its     *)
(* persistence in localStorage, and the asynchronous submit handler.       *)
(*                                                                         *)
(* A text is a sequence of one-character strings (longer constant pieces   *)
(* such as the notices are kept as a single token).  An element of the     *)
(* history array is a record [kind, role, content]; kind "null" is a JSON  *)
(* null that a foreign writer left in the persisted array.                 *)
(***************************************************************************)
EXTENDS Integers, Sequences, FiniteSets, TLC

\* ------------------------------------------------------------------ bounds
\* Number of submit events the user fires (each may start a request).
MaxSubmitEvents == 2
\* Longest persisted history array found at start-up.
MaxStoredLen == 21

\* --------------------------------------------------------------- constants
MAX_HISTORY_MESSAGES == 20

SERVER_ERROR == <<"Server error. See console.">>
NO_REPLY == <<"No reply received. Check worker logs.">>
NETWORK_ERROR == <<"Network error. Check console.">>
baseSystemPrompt == <<"You are the L'Oreal Smart Product Advisor. [...]">>

WhiteSpace == {" ", "\t"}

\* ----------------------------------------------------------- pure helpers
\* String.prototype.trim: strip leading and trailing white space.
RECURSIVE TrimStart(_)
TrimStart(t) ==
  IF t # <<>> /\ Head(t) \in WhiteSpace THEN TrimStart(Tail(t)) ELSE t

RECURSIVE TrimEnd(_)
TrimEnd(t) ==
  IF t # <<>> /\ t[Len(t)] \in WhiteSpace
  THEN TrimEnd(SubSeq(t, 1, Len(t) - 1))
  ELSE t

Trim_None(t) == t
Trim(t) == TrimEnd(TrimStart(t))

\* escapeHtml: & < > replaced by their entities, in that order.
escapeHtml(text) ==
  [i \in 1..Len(text) |->
     IF text[i] = "&" THEN "&amp;"
     ELSE IF text[i] = "<" THEN "&lt;"
     ELSE IF text[i] = ">" THEN "&gt;"
     ELSE text[i]]

\* A {role, content} object of the history array, and a JSON null.
Msg(role, content) == [kind |-> "object", role |-> role, content |-> content]
NullElem == [kind |-> "null", role |-> "", content |-> <<>>]

\* Array.prototype.slice(-n): the last n elements (all of them if fewer).
SliceLast_KeepFirst(arr, n) ==
  SubSeq(arr, 1, IF Len(arr) < n THEN Len(arr) ELSE n)
SliceLast(arr, n) ==
  LET start == IF Len(arr) - n < 0 THEN 0 ELSE Len(arr) - n
  IN  SubSeq(arr, start + 1, Len(arr))

\* history.push(m); if (history.length > MAX) history = history.slice(-MAX)
PushTruncate(h, m) ==
  LET pushed == Append(h, m)
  IN  IF Len(pushed) > MAX_HISTORY_MESSAGES
      THEN SliceLast(pushed, MAX_HISTORY_MESSAGES)
      ELSE pushed

\* localStorage values.  A value under HISTORY_KEY is absent, text that is
\* not JSON ("garbage"), or the JSON text of null, of an object, of a number,
\* of a string or of an array.  `items` is what indexing the parsed value
\* gives: nothing for null, {} and a number, the characters for a string.
AbsentItem == [k |-> "absent", items |-> <<>>]
GarbageItem == [k |-> "garbage", items |-> <<>>]
JsonNullItem == [k |-> "null", items |-> <<>>]
JsonObjectItem == [k |-> "object", items |-> <<>>]
JsonNumberItem == [k |-> "number", items |-> <<>>]
CharElem == [kind |-> "char", role |-> "", content |-> <<>>]
JsonStringItem == [k |-> "string", items |-> <<CharElem, CharElem>>]

\* JSON.stringify(history): the JSON text of the array.
JSONstringify(h) == [k |-> "array", items |-> h]

\* JSON.parse(text): [threw, value]; value is [t, items] with t the JS type.
JSONparse(item) ==
  IF item.k = "garbage"
  THEN [threw |-> TRUE, t |-> "undefined", items |-> <<>>]
  ELSE [threw |-> FALSE, t |-> item.k, items |-> item.items]

\* loadHistory(): getItem(HISTORY_KEY) || "[]", parsed; [] when anything throws.
loadHistory_Empty(item, readThrows) == [t |-> "array", items |-> <<>>]
loadHistory(item, readThrows) ==
  IF readThrows THEN [t |-> "array", items |-> <<>>]
  ELSE LET text == IF item.k = "absent" THEN JSONstringify(<<>>) ELSE item
           p == JSONparse(text)
       IN  IF p.threw THEN [t |-> "array", items |-> <<>>]
           ELSE [t |-> p.t, items |-> p.items]

\* if (!Array.isArray(history)) history = [];
EnsureArray_NoCheck(loaded) == loaded.items
EnsureArray(loaded) == IF loaded.t = "array" THEN loaded.items ELSE <<>>

\* systemPromptFor(name)
systemPromptFor(name) ==
  baseSystemPrompt \o <<"\nUser name: ">> \o name
    \o <<". Use the user's name when appropriate.">>

\* The welcome text of the first run.
Welcome_NoName(name) ==
  <<"Hi ">> \o <<"! I'm your L'Oreal Smart Product Advisor. [...]">>
Welcome(name) ==
  <<"Hi ">> \o name \o <<"! I'm your L'Oreal Smart Product Advisor. [...]">>

\* A chat bubble: document.createElement("div") with class and text.
Bubble(id, cls, text) == [id |-> id, cls |-> cls, text |-> text]

\* appendMessage(text, cls) on a window whose next element is number id.
appendMessage_Twice(win, id, text, cls) ==
  LET b == Bubble(id, IF cls = "user" THEN "msg user" ELSE "msg ai", text)
  IN  Append(Append(win, b), b)
appendMessage(win, id, text, cls) ==
  Append(win, Bubble(id, IF cls = "user" THEN "msg user" ELSE "msg ai", text))

\* appendTypingIndicator()
appendTypingIndicator(win, id) == Append(win, Bubble(id, "msg ai typing", <<>>))

\* el.remove(): detaches the element if attached; otherwise does nothing.
RemoveEl_Keep(win, id) == win
RemoveEl_FirstTyping(win, id) ==
  LET typing == {i \in 1..Len(win) : win[i].cls = "msg ai typing"}
  IN  IF typing = {} THEN win
      ELSE LET first == CHOOSE i \in typing : \A j \in typing : i <= j
           IN  SubSeq(win, 1, first - 1) \o SubSeq(win, first + 1, Len(win))
RemoveEl(win, id) == SelectSeq(win, LAMBDA e : e.id # id)

\* ------------------------------------------------------------------ inputs
\* Values found under NAME_KEY at start-up, and answers of window.prompt
\* (a declined prompt returns null, modelled as absent).
AbsentName == [present |-> FALSE, val |-> <<>>]
Name(v) == [present |-> TRUE, val |-> v]
StoredNames == {AbsentName, Name(<<>>), Name(<<"A", "d", "a">>)}
PromptAnswers == {AbsentName, Name(<<>>), Name(<<"A", "d", "a">>)}

\* A persisted conversation of n messages: user and assistant alternate and
\* the texts cycle with period three, so that no shift maps it to itself.
StoredText(i) == <<IF i % 3 = 0 THEN "x" ELSE IF i % 3 = 1 THEN "y" ELSE "z">>
StoredConversation(n) ==
  [i \in 1..n |-> Msg(IF i % 2 = 1 THEN "assistant" ELSE "user", StoredText(i))]
StoredLens == (MAX_HISTORY_MESSAGES - 1)..MaxStoredLen
StoredHistories ==
  {AbsentItem, GarbageItem, JsonNullItem, JsonObjectItem, JsonNumberItem,
   JsonStringItem, JSONstringify(<<>>),
   JSONstringify(<<Msg("user", <<"x">>), NullElem>>)}
    \cup {JSONstringify(StoredConversation(n)) : n \in StoredLens}

\* What the user types into the input field.
Inputs == {<<" ">>, <<" ", "a", " ">>, <<"b", "<">>}

\* Response bodies.  The body of a non-OK response is read with resp.text(),
\* that of an OK response with resp.json(); either read can reject.
Unread == [k |-> "unread", shape |-> "", content |-> <<>>]
StreamError == [k |-> "streamError", shape |-> "", content |-> <<>>]
Unparseable == [k |-> "unparseable", shape |-> "", content |-> <<>>]
TextBody == [k |-> "text", shape |-> "", content |-> <<>>]
Data(shape, content) == [k |-> "json", shape |-> shape, content |-> content]

\* Parsed bodies of OK responses: null, {choices: []}, a message without
\* content, a numeric content, and string contents.
ReplyTexts == {<<" ">>, <<" ", "r", " ">>}
JsonBodies ==
  {Data("null", <<>>), Data("emptyChoices", <<>>), Data("noContent", <<>>),
   Data("number", <<>>)}
    \cup {Data("string", c) : c \in ReplyTexts}

\* localStorage either works, or is full (setItem throws QuotaExceededError),
\* or is blocked (every access throws SecurityError), for the whole page life.
StorageModes == {"ok", "full", "blocked"}
ReadThrows(mode) == mode = "blocked"
WriteThrows(mode) == mode # "ok"

\* ------------------------------------------------------------------- state
VARIABLES
  phase,          \* "boot" before the script runs, then "ready" or "aborted"
  uncaught,       \* exception that escaped to the top level: "none", ...
  storedName,     \* localStorage[NAME_KEY]
  storedHistory,  \* localStorage[HISTORY_KEY]
  userName,       \* const userName
  history,        \* let history
  chatWindow,     \* children of #chatWindow, in document order
  latestQuestion, \* innerHTML of #latestQuestion
  userInput,      \* userInput.value
  subs,           \* one record per running or finished handler invocation
  lastBody,       \* the body the transport delivered in the latest step
  storage,        \* how localStorage behaves: see StorageModes
  nextEl,         \* number of elements created so far, plus one
  nEvents,        \* submit events handled so far
  initHistory,    \* history: value of `history` when initialization ended
  appendLog,      \* history: every message the handler pushed, in order
  beforeReload    \* history: value of `history` when the page was reloaded

vars == <<phase, uncaught, storedName, storedHistory, userName, history,
          chatWindow, latestQuestion, userInput, subs, lastBody, storage,
          nextEl, nEvents, initHistory, appendLog, beforeReload>>

\* The page before the script runs: localStorage holds whatever was left
\* there; the DOM is empty.
Init ==
  /\ phase = "boot"
  /\ uncaught = "none"
  /\ storedName \in StoredNames
  /\ storedHistory \in StoredHistories
  /\ userName = <<>>
  /\ history = <<>>
  /\ chatWindow = <<>>
  /\ latestQuestion = <<>>
  /\ userInput = <<>>
  /\ subs = <<>>
  /\ lastBody = Unread
  /\ storage \in StorageModes
  /\ nextEl = 1
  /\ nEvents = 0
  /\ initHistory = <<>>
  /\ appendLog = <<>>
  /\ beforeReload = <<>>

\* ---------------------------------------------------------- initialization
\* getUserName(): [threw, name, store]; neither localStorage call is guarded.
getUserName_NoFallback(stored, readThrows, answer, writeThrows) ==
  IF readThrows \/ (~(stored.present /\ stored.val # <<>>) /\ writeThrows)
  THEN [threw |-> TRUE, name |-> <<>>, store |-> stored]
  ELSE IF stored.present /\ stored.val # <<>>
  THEN [threw |-> FALSE, name |-> stored.val, store |-> stored]
  ELSE [threw |-> FALSE, name |-> answer.val, store |-> Name(answer.val)]
getUserName(stored, readThrows, answer, writeThrows) ==
  IF readThrows
  THEN [threw |-> TRUE, name |-> <<>>, store |-> stored]
  ELSE IF stored.present /\ stored.val # <<>>
  THEN [threw |-> FALSE, name |-> stored.val, store |-> stored]
  ELSE LET name == IF answer.present /\ answer.val # <<>>
                   THEN answer.val
                   ELSE <<"F", "r", "i", "e", "n", "d">>
       IN  IF writeThrows
           THEN [threw |-> TRUE, name |-> <<>>, store |-> stored]
           ELSE [threw |-> FALSE, name |-> name, store |-> Name(name)]

\* saveHistory(history): setItem inside try/catch; the new value of the item.
saveHistory_Skip(item, h, writeThrows) == item
saveHistory(item, h, writeThrows) ==
  IF writeThrows THEN item ELSE JSONstringify(h)

\* Index of the first element of h that is null (0 if there is none).
FirstNull(h) ==
  IF \E i \in 1..Len(h) : h[i].kind = "null"
  THEN CHOOSE i \in 1..Len(h) :
         /\ h[i].kind = "null"
         /\ \A j \in 1..(i - 1) : h[j].kind # "null"
  ELSE 0

\* for (const m of history) appendMessage(m.content, ...): the bubbles of the
\* first n elements.
RenderSaved(h, n) ==
  [i \in 1..n |->
     Bubble(i, IF h[i].role = "user" THEN "msg user" ELSE "msg ai", h[i].content)]

\* Lines 93-109, run once when the page loads.
RunScript ==
  /\ phase = "boot"
  /\ \E answer \in PromptAnswers :
       LET got == getUserName(storedName, ReadThrows(storage), answer,
                              WriteThrows(storage))
           loaded == loadHistory(storedHistory, ReadThrows(storage))
           arr == EnsureArray(loaded)
           bad == FirstNull(arr)
           welcome == Welcome(got.name)
       IN  IF got.threw
           THEN /\ phase' = "aborted"
                /\ uncaught' = "storage"
                /\ UNCHANGED <<storedName, storedHistory, userName, history,
                               chatWindow, nextEl, initHistory>>
           ELSE /\ storedName' = got.store
                /\ userName' = got.name
                /\ IF Len(arr) = 0
                   THEN /\ chatWindow' = appendMessage(chatWindow, nextEl, welcome, "ai")
                        /\ nextEl' = nextEl + 1
                        /\ history' = Append(arr, Msg("assistant", welcome))
                        /\ storedHistory' =
                             saveHistory(storedHistory, history', WriteThrows(storage))
                        /\ phase' = "ready"
                        /\ uncaught' = "none"
                   ELSE /\ history' = arr
                        /\ UNCHANGED storedHistory
                        /\ IF bad = 0
                           THEN /\ chatWindow' = RenderSaved(arr, Len(arr))
                                /\ nextEl' = Len(arr) + 1
                                /\ phase' = "ready"
                                /\ uncaught' = "none"
                           ELSE /\ chatWindow' = RenderSaved(arr, bad - 1)
                                /\ nextEl' = bad
                                /\ phase' = "aborted"
                                /\ uncaught' = "TypeError"
                /\ initHistory' = history'
  /\ beforeReload' = <<>>
  /\ UNCHANGED <<latestQuestion, userInput, subs, lastBody, storage, nEvents,
                 appendLog>>

\* ---------------------------------------------------------- submit handler
\* data?.choices?.[0]?.message?.content?.trim(): undefined when a link of the
\* chain is missing; a TypeError when content has no trim method.
ExtractReply_NoTrim(data) ==
  IF data.shape = "string"
  THEN [threw |-> FALSE, defined |-> TRUE, val |-> data.content]
  ELSE IF data.shape = "number"
  THEN [threw |-> TRUE, defined |-> FALSE, val |-> <<>>]
  ELSE [threw |-> FALSE, defined |-> FALSE, val |-> <<>>]
ExtractReply(data) ==
  IF data.shape = "string"
  THEN [threw |-> FALSE, defined |-> TRUE, val |-> Trim(data.content)]
  ELSE IF data.shape = "number"
  THEN [threw |-> TRUE, defined |-> FALSE, val |-> <<>>]
  ELSE [threw |-> FALSE, defined |-> FALSE, val |-> <<>>]

\* if (reply): a defined, non-empty string.
Truthy_Always(r) == TRUE
Truthy(r) == r.defined /\ r.val # <<>>

\* setLatestQuestion(text)
setLatestQuestion(text) ==
  IF text = <<>> THEN <<>>
  ELSE <<"<strong>Your question</strong>: ">> \o escapeHtml(text)

\* [{role: "system", ...}, ...history.map(m => ({role, content}))]
messagesToSend_NoSystem(name, h) ==
  [i \in 1..Len(h) |-> Msg(h[i].role, h[i].content)]
messagesToSend(name, h) ==
  <<Msg("system", systemPromptFor(name))>>
    \o [i \in 1..Len(h) |-> Msg(h[i].role, h[i].content)]

\* The user edits the input field.
Type(t) ==
  /\ phase = "ready"
  /\ nEvents < MaxSubmitEvents
  /\ t # userInput
  /\ userInput' = t
  /\ UNCHANGED <<phase, uncaught, storedName, storedHistory, userName, history,
                 chatWindow, latestQuestion, subs, lastBody, storage, nextEl,
                 nEvents, initHistory, appendLog, beforeReload>>

\* The submit event: lines 112-150, up to the first await.
Submit ==
  /\ phase = "ready"
  /\ nEvents < MaxSubmitEvents
  /\ nEvents' = nEvents + 1
  /\ LET userText == Trim(userInput)
     IN  IF userText = <<>>
         THEN UNCHANGED <<storedHistory, history, chatWindow, latestQuestion,
                          userInput, subs, nextEl, appendLog>>
         ELSE   /\ latestQuestion' = setLatestQuestion(userText)
                /\ history' = PushTruncate(history, Msg("user", userText))
                /\ storedHistory' = saveHistory(storedHistory, history', WriteThrows(storage))
                /\ userInput' = <<>>
                /\ chatWindow' =
                     appendTypingIndicator(
                       appendMessage(chatWindow, nextEl, userText, "user"),
                       nextEl + 1)
                /\ nextEl' = nextEl + 2
                /\ subs' = Append(subs,
                     [userText |-> userText,
                      pc |-> "fetch",
                      typingEl |-> nextEl + 1,
                      messagesToSend |-> messagesToSend(userName, history'),
                      outEl |-> 0])
                /\ appendLog' = Append(appendLog, Msg("user", userText))
  /\ UNCHANGED <<phase, uncaught, storedName, userName, lastBody, storage,
                 initHistory, beforeReload>>

\* The handler invocation s ends: its outcome bubble is element `el`.
Finish(s, el) == [subs EXCEPT ![s].pc = "done", ![s].outEl = el]

\* The catch block, lines 177-184: remove the indicator, show the notice.
Catch(s) ==
  /\ chatWindow' =
       appendMessage(RemoveEl(chatWindow, subs[s].typingEl), nextEl,
                     NETWORK_ERROR, "ai")
  /\ nextEl' = nextEl + 1
  /\ UNCHANGED <<history, storedHistory, appendLog>>

Frame == UNCHANGED <<phase, uncaught, storedName, userName, latestQuestion,
                     userInput, storage, nEvents, initHistory, beforeReload>>

\* fetch resolves with a response: lines 152-156 or 152-162, up to the await
\* of the body read.
FetchResolve(s) ==
  /\ s \in 1..Len(subs)
  /\ subs[s].pc = "fetch"
  /\ \E ok \in BOOLEAN :
       subs' = [subs EXCEPT ![s].pc = IF ok THEN "json" ELSE "text"]
  /\ lastBody' = Unread
  /\ chatWindow' = RemoveEl(chatWindow, subs[s].typingEl)
  /\ UNCHANGED <<history, storedHistory, appendLog, nextEl>>
  /\ Frame

\* fetch rejects: the request never completed.
FetchReject(s) ==
  /\ s \in 1..Len(subs)
  /\ subs[s].pc = "fetch"
  /\ lastBody' = Unread
  /\ subs' = Finish(s, nextEl)
  /\ Catch(s)
  /\ Frame

\* resp.text() of a non-OK response resolves: lines 157-159.
TextResolve(s) ==
  /\ s \in 1..Len(subs)
  /\ subs[s].pc = "text"
  /\ lastBody' = TextBody
  /\ subs' = Finish(s, nextEl)
  /\ chatWindow' = appendMessage(chatWindow, nextEl, SERVER_ERROR, "ai")
  /\ nextEl' = nextEl + 1
  /\ UNCHANGED <<history, storedHistory, appendLog>>
  /\ Frame

\* resp.text() rejects: the body could not be read.
TextReject(s) ==
  /\ s \in 1..Len(subs)
  /\ subs[s].pc = "text"
  /\ lastBody' = StreamError
  /\ subs' = Finish(s, nextEl)
  /\ Catch(s)
  /\ Frame

\* The history after the handler invocation s pushes the reply.
HistoryAfterReply_Stale(s, reply) ==
  PushTruncate(Tail(subs[s].messagesToSend), Msg("assistant", reply))
HistoryAfterReply(s, reply) == PushTruncate(history, Msg("assistant", reply))

\* resp.json() resolves with the parsed body: lines 163-176.
JsonResolve(s) ==
  /\ s \in 1..Len(subs)
  /\ subs[s].pc = "json"
  /\ \E data \in JsonBodies :
       LET reply == ExtractReply(data)
       IN  /\ lastBody' = data
           /\ subs' = Finish(s, nextEl)
           /\ IF reply.threw
              THEN Catch(s)
              ELSE IF Truthy(reply)
              THEN   /\ chatWindow' = appendMessage(chatWindow, nextEl, reply.val, "ai")
                     /\ nextEl' = nextEl + 1
                     /\ history' = HistoryAfterReply(s, reply.val)
                     /\ storedHistory' =
                          saveHistory(storedHistory, history', WriteThrows(storage))
                     /\ appendLog' = Append(appendLog, Msg("assistant", reply.val))
              ELSE /\ chatWindow' = appendMessage(chatWindow, nextEl, NO_REPLY, "ai")
                   /\ nextEl' = nextEl + 1
                   /\ UNCHANGED <<history, storedHistory, appendLog>>
  /\ Frame

\* resp.json() rejects: the body is not JSON.
JsonReject(s) ==
  /\ s \in 1..Len(subs)
  /\ subs[s].pc = "json"
  /\ lastBody' = Unparseable
  /\ subs' = Finish(s, nextEl)
  /\ Catch(s)
  /\ Frame

Next ==
  \/ RunScript
  \/ \E t \in Inputs : Type(t)
  \/ Submit
  \/ \E s \in 1..MaxSubmitEvents : FetchResolve(s)
  \/ \E s \in 1..MaxSubmitEvents : FetchReject(s)
  \/ \E s \in 1..MaxSubmitEvents : TextResolve(s)
  \/ \E s \in 1..MaxSubmitEvents : TextReject(s)
  \/ \E s \in 1..MaxSubmitEvents : JsonReject(s)
  \/ \E s \in 1..MaxSubmitEvents : JsonResolve(s)

Spec == Init /\ [][Next]_vars

\* The user reloads the page: the document and every script variable are
\* gone, pending handler invocations with them; localStorage stays.  The
\* script then runs again from line 1.
Reload ==
  /\ phase = "ready"
  /\ phase' = "boot"
  /\ beforeReload' = history
  /\ userName' = <<>>
  /\ history' = <<>>
  /\ chatWindow' = <<>>
  /\ latestQuestion' = <<>>
  /\ userInput' = <<>>
  /\ subs' = <<>>
  /\ lastBody' = Unread
  /\ nextEl' = 1
  /\ initHistory' = <<>>
  /\ appendLog' = <<>>
  /\ UNCHANGED <<uncaught, storedName, storedHistory, storage, nEvents>>

\* The page with reloads.
NextWithReload == Next \/ Reload
ReloadSpec == Init /\ [][NextWithReload]_vars

\* Pages whose storage works and holds an identity, on a first run or with a
\* full saved conversation.
InitWorkingStorage ==
  /\ Init
  /\ storage = "ok"
  /\ storedName = Name(<<"A", "d", "a">>)
  /\ storedHistory \in
       {AbsentItem, JSONstringify(StoredConversation(MAX_HISTORY_MESSAGES))}

\* The transport settles every request it was given: each pending fetch
\* eventually resolves or rejects.
FairSpec ==
  /\ InitWorkingStorage
  /\ [][Next]_vars
  /\ \A s \in 1..MaxSubmitEvents : WF_vars(FetchResolve(s) \/ FetchReject(s))

\* ================================================================ properties
\* Every message that ever entered the history, oldest first: the array that
\* initialization left, then the handler's pushes in the order they ran.
GlobalLog == initHistory \o appendLog

\* h is the last n elements of log (all of log if it has fewer).
IsLastOf(h, log, n) ==
  /\ Len(h) = (IF Len(log) < n THEN Len(log) ELSE n)
  /\ \A i \in 1..Len(h) : h[i] = log[Len(log) - Len(h) + i]

\* t is raw without its leading and trailing white space.
IsTrimOf(t, raw) ==
  \E i, j \in 0..Len(raw) :
    /\ i + j <= Len(raw)
    /\ t = SubSeq(raw, i + 1, Len(raw) - j)
    /\ \A k \in 1..i : raw[k] \in WhiteSpace
    /\ \A k \in (Len(raw) - j + 1)..Len(raw) : raw[k] \in WhiteSpace
    /\ t # <<>> => (t[1] \notin WhiteSpace /\ t[Len(t)] \notin WhiteSpace)

IsBlank(t) == \A i \in 1..Len(t) : t[i] \in WhiteSpace

\* The body is JSON whose choices[0].message.content is a string with some
\* character that is not white space.
HasReplyText(body) ==
  /\ body.k = "json"
  /\ body.shape = "string"
  /\ ~IsBlank(body.content)

Last(q) == q[Len(q)]

\* This step ends handler invocation s.
Ends(s) == subs[s].pc # "done" /\ subs'[s].pc = "done"

\* This step ends invocation s on a failure: the fetch rejected, the status
\* was not OK, or the OK body gave no reply text.
EndsInFailure(s) ==
  /\ Ends(s)
  /\ subs[s].pc \in {"fetch", "text"} \/ ~HasReplyText(lastBody')

\* This step ends invocation s on an OK response with reply text.
EndsInReply(s) ==
  /\ Ends(s)
  /\ subs[s].pc = "json"
  /\ HasReplyText(lastBody')

IndicatorShown(s) ==
  \E i \in 1..Len(chatWindow) : chatWindow[i].id = subs[s].typingEl

C2_OldestFirstEviction ==
  /\ [](appendLog # <<>> /\ Len(GlobalLog) > MAX_HISTORY_MESSAGES =>
         /\ Len(history) = MAX_HISTORY_MESSAGES
         /\ \A i \in 1..MAX_HISTORY_MESSAGES :
              history[i] = GlobalLog[Len(GlobalLog) - MAX_HISTORY_MESSAGES + i])
  /\ [][Len(subs') = Len(subs) + 1 /\ Len(history) = MAX_HISTORY_MESSAGES =>
          /\ Len(history') = MAX_HISTORY_MESSAGES
          /\ \A i \in 1..(MAX_HISTORY_MESSAGES - 1) : history'[i] = history[i + 1]
          /\ Last(history').role = "user"
          /\ IsTrimOf(Last(history').content, userInput)]_vars

C2_Witness ==
  /\ Len(initHistory) = MAX_HISTORY_MESSAGES
  /\ Len(appendLog) = 1
  /\ Len(history) = MAX_HISTORY_MESSAGES
  /\ history[1] = initHistory[2]
  /\ Last(history) = Msg("user", <<"a">>)

\* C3: processing a failed outcome (non-OK status, OK without reply text,
\* transport failure) changes neither the history nor the persisted history;
\* a lone submission that fails leaves the history one entry longer, the
\* user message.
C3_FailureLeavesHistory ==
  /\ [][\A s \in 1..Len(subs) :
          (EndsInFailure(s) \/ (subs[s].pc = "fetch" /\ subs'[s].pc = "text")) =>
            /\ history' = history
            /\ storedHistory' = storedHistory]_vars
  /\ [](Len(subs) = 1 /\ subs[1].pc = "done" /\ ~HasReplyText(lastBody)
         /\ Len(initHistory) < MAX_HISTORY_MESSAGES =>
           history = Append(initHistory, Msg("user", subs[1].userText)))

C3_Witness ==
  /\ Len(subs) = 1
  /\ subs[1].pc = "done"
  /\ lastBody = Data("emptyChoices", <<>>)
  /\ Last(chatWindow).text = NO_REPLY
  /\ Len(history) = Len(initHistory) + 1
  /\ storage = "ok"

\* C4: an OK response with reply text appends {assistant, trimmed text} at
\* the end of the history and persists it; a lone submission below the bound
\* leaves the history two entries longer: the user message, then the reply.
C4_SuccessAppendsReply ==
  /\ [][\A s \in 1..Len(subs) : EndsInReply(s) =>
          /\ Last(history').role = "assistant"
          /\ IsTrimOf(Last(history').content, lastBody'.content)
          /\ Last(chatWindow').text = Last(history').content
          /\ IsLastOf(history', Append(history, Last(history')),
                      MAX_HISTORY_MESSAGES)
          /\ storage = "ok" =>
               (storedHistory'.k = "array" /\ storedHistory'.items = history')]_vars
  /\ [](Len(subs) = 1 /\ subs[1].pc = "done" /\ HasReplyText(lastBody)
         /\ Len(initHistory) + 2 <= MAX_HISTORY_MESSAGES =>
           /\ Len(history) = Len(initHistory) + 2
           /\ SubSeq(history, 1, Len(initHistory)) = initHistory
           /\ history[Len(history) - 1] = Msg("user", subs[1].userText)
           /\ Last(history).role = "assistant")

C4_Witness ==
  /\ Len(subs) = 1
  /\ subs[1].pc = "done"
  /\ lastBody = Data("string", <<" ", "r", " ">>)
  /\ history = initHistory \o <<Msg("user", <<"a">>), Msg("assistant", <<"r">>)>>
  /\ storedHistory = JSONstringify(history)

\* C5: a submit event on an empty or white-space-only input changes nothing:
\* history, persisted history, transcript, latest question, the input field,
\* and no handler invocation goes on to call the network.
C5_EmptyInputNoOp ==
  [][nEvents' = nEvents + 1 /\ IsBlank(userInput) =>
       UNCHANGED <<history, storedHistory, chatWindow, latestQuestion,
                   userInput, subs, nextEl, appendLog, storedName, userName>>]_vars

C5_Witness ==
  /\ nEvents = 1
  /\ userInput = <<" ">>
  /\ subs = <<>>
  /\ chatWindow = RenderSaved(initHistory, Len(initHistory))

\* C6: an OK response whose body is unparseable or yields no reply text
\* ends with the "no reply" notice as the outcome bubble.
C6_NoReplyNotice ==
  [][\A s \in 1..Len(subs) :
       (Ends(s) /\ subs[s].pc = "json" /\ ~HasReplyText(lastBody')) =>
         Last(chatWindow').text = NO_REPLY]_vars

\* C7: a non-OK response ends with the "server error" notice as the outcome
\* bubble, whatever the read of the error body does.
C7_ServerErrorNotice ==
  [][\A s \in 1..Len(subs) :
       (Ends(s) /\ subs[s].pc = "text") =>
         Last(chatWindow').text = SERVER_ERROR]_vars

\* C8: the typing indicator of a submission is gone from the transcript once
\* its fetch has settled, hence before its outcome bubble and in Idle; the
\* catch block's second removal leaves the rest of the transcript alone; and
\* if the transport settles, the indicator is eventually removed.
C8_IndicatorRemoved ==
  /\ [](\A s \in 1..Len(subs) : subs[s].pc # "fetch" => ~IndicatorShown(s))
  /\ [][\A s \in 1..Len(subs) :
          (Ends(s) /\ subs[s].pc \in {"text", "json"}) =>
            SubSeq(chatWindow', 1, Len(chatWindow)) = chatWindow]_vars
  /\ \A s \in 1..MaxSubmitEvents :
       (Len(subs) >= s /\ IndicatorShown(s)) ~> (Len(subs) >= s /\ ~IndicatorShown(s))

C8_Witness ==
  /\ Len(subs) = 1
  /\ subs[1].pc = "done"
  /\ lastBody = Unparseable
  /\ ~IndicatorShown(1)
  /\ Last(chatWindow).id = subs[1].outEl

\* C9: with overlapping submissions every append lands on the one shared
\* history in the order it runs: the history is always the last
\* MAX_HISTORY_MESSAGES entries of the global sequence of appends, and each
\* step keeps what was there, at most dropping from the front, and adds at
\* most one entry at the end.
C9_OverlapKeepsOrder ==
  /\ [](appendLog # <<>> => IsLastOf(history, GlobalLog, MAX_HISTORY_MESSAGES))
  /\ [][phase = "ready" /\ history' # history =>
          /\ Len(history') >= 1
          /\ Len(history') <= Len(history) + 1
          /\ \A i \in 1..(Len(history') - 1) :
               history'[i] = history[i + Len(history) + 1 - Len(history')]]_vars

C9_Witness ==
  /\ Len(subs) = 2
  /\ Len(appendLog) = 3
  /\ appendLog[1] = Msg("user", <<"a">>)
  /\ appendLog[2] = Msg("user", <<"b", "<">>)
  /\ appendLog[3] = Msg("assistant", <<"r">>)
  /\ subs[1].pc = "done"
  /\ subs[2].pc = "fetch"
  /\ Len(history) = MAX_HISTORY_MESSAGES
  /\ SubSeq(history, MAX_HISTORY_MESSAGES - 2, MAX_HISTORY_MESSAGES) = appendLog

\* C10: a failing localStorage call never lets an exception escape:
\* initialization reaches its end and the identity is set.
C10_PersistenceFailureNonFatal ==
  phase # "boot" => (uncaught # "storage" /\ userName # <<>>)

\* The persisted history value is absent, is not JSON, or is the JSON text of
\* something other than an array.
NotASequence(item) ==
  item.k \in {"absent", "garbage", "null", "object", "number", "string"}

\* C11: when the persisted history value is absent, unparseable or not an
\* array, loading gives the empty history and an initialization that reaches
\* its end leaves exactly the welcome message in the history; no element of
\* such a value ever becomes a history entry.
C11_LoadRecovery ==
  [][phase = "boot" /\ phase' # "boot" /\ NotASequence(storedHistory) =>
       /\ EnsureArray(loadHistory(storedHistory, ReadThrows(storage))) = <<>>
       /\ phase' # "ready" => history' = <<>>
       /\ phase' = "ready" =>
            /\ history' = <<Msg("assistant", Welcome(userName'))>>
            /\ Len(chatWindow') = 1]_vars

C11_Witness ==
  /\ phase = "ready"
  /\ storage = "full"
  /\ storedHistory = JsonStringItem
  /\ history = <<Msg("assistant", Welcome(userName))>>
\* C12: whatever the persisted history value is, loading it and the
\* initialization that consumes it throw nothing, and no element that is not
\* a {role, content} message becomes a history entry.
C12_LoadNeverThrows ==
  phase # "boot" =>
    /\ uncaught # "TypeError"
    /\ \A i \in 1..Len(history) : history[i].kind = "object"
\* C13: while localStorage works, at every point where control is back at
\* the event loop the persisted value is the JSON text of the complete
\* in-memory history.
C13_PersistAfterEveryMutation ==
  storage = "ok" /\ phase = "ready" => storedHistory = JSONstringify(history)

C13_Witness ==
  /\ storage = "ok"
  /\ Len(subs) = 2
  /\ subs[1].pc = "fetch"
  /\ subs[2].pc = "done"
  /\ Len(appendLog) = 3
  /\ Last(appendLog).role = "assistant"
  /\ storedHistory = JSONstringify(history)
  /\ Last(history) = Last(appendLog)
\* C14: the request of a non-empty submission carries one system message,
\* the prompt with the user's name, followed by the history as it is right
\* after this submission's user append, so its last message is the trimmed
\* input; the history and the persisted array hold user and assistant
\* entries only.
C14_OutboundMessages ==
  /\ [][Len(subs') = Len(subs) + 1 =>
          LET sent == Last(subs').messagesToSend
          IN  /\ Len(sent) = Len(history') + 1
              /\ sent[1] = Msg("system", systemPromptFor(userName))
              /\ \A i \in 1..Len(history') : sent[i + 1] = history'[i]
              /\ Last(sent).role = "user"
              /\ IsTrimOf(Last(sent).content, userInput)]_vars
  /\ [](phase = "ready" =>
         /\ \A i \in 1..Len(history) : history[i].role \in {"user", "assistant"}
         /\ storedHistory.k = "array" =>
              \A i \in 1..Len(storedHistory.items) :
                storedHistory.items[i].role \in {"user", "assistant"})

C14_Witness ==
  /\ Len(subs) = 2
  /\ subs[1].pc = "done"
  /\ subs[2].pc = "fetch"
  /\ Len(appendLog) = 3
  /\ appendLog[2].role = "assistant"
  /\ Len(subs[2].messagesToSend) = Len(history) + 1
  /\ subs[2].messagesToSend[1].role = "system"
  /\ Last(subs[2].messagesToSend) = Msg("user", <<"b", "<">>)
\* C15: the handler yields only at the network call: once the response of a
\* submission has been delivered, no other submission starts or takes a step
\* before this one has rendered its outcome.
C15_SingleSuspensionPoint ==
  [][\A s \in 1..Len(subs) :
       subs[s].pc \in {"text", "json"} =>
         /\ Len(subs') = Len(subs)
         /\ \A r \in (1..Len(subs)) \ {s} : subs'[r] = subs[r]]_vars
\* A non-empty name is stored under NAME_KEY.
HasName(stored) == stored.present /\ stored.val # <<>>

\* The name a prompt answer gives: the answer, or "Friend" when the prompt
\* was declined or left empty.
NameFromPrompt(answer) ==
  IF answer.present /\ answer.val # <<>>
  THEN answer.val
  ELSE <<"F", "r", "i", "e", "n", "d">>

\* C16: an initialization that reaches its end sets a non-empty identity: the
\* stored name if there is one, otherwise what the prompt gives ("Friend"
\* for an empty or declined prompt), which it stores; afterwards no step
\* changes the identity in memory or in the store.
C16_IdentityInitOnce ==
  /\ [][phase = "boot" /\ phase' = "ready" =>
          /\ userName' # <<>>
          /\ storedName' = Name(userName')
          /\ HasName(storedName) =>
               (userName' = storedName.val /\ storedName' = storedName)
          /\ ~HasName(storedName) =>
               /\ \E a \in PromptAnswers : userName' = NameFromPrompt(a)
               /\ \A a \in PromptAnswers :
                    getUserName(storedName, FALSE, a, FALSE).name =
                      NameFromPrompt(a)]_vars
  /\ [][phase = "ready" /\ phase' = "ready" =>
          (userName' = userName /\ storedName' = storedName)]_vars

C16_Witness ==
  /\ phase = "ready"
  /\ userName = <<"F", "r", "i", "e", "n", "d">>
  /\ storedName = Name(userName)
  /\ Len(subs) = 2
  /\ subs[1].pc = "done"
  /\ subs[2].pc = "done"
  /\ Len(appendLog) = 3
\* The text `part` occurs in `text`.
Contains(text, part) ==
  \E i \in 1..(Len(text) - Len(part) + 1) :
    SubSeq(text, i, i + Len(part) - 1) = part

\* C17: when the loaded history is empty, initialization appends one
\* assistant message that contains the user's name, renders it as the only
\* bubble and, localStorage working, persists it; when the loaded history is
\* not empty, initialization leaves it and the persisted value as they are,
\* renders one bubble per entry and adds no message.
C17_WelcomeOnFirstRunOnly ==
  [][phase = "boot" /\ phase' = "ready" =>
       LET loaded == EnsureArray(loadHistory(storedHistory, ReadThrows(storage)))
       IN  IF loaded = <<>>
           THEN /\ Len(history') = 1
                /\ history'[1].role = "assistant"
                /\ Contains(history'[1].content, userName')
                /\ chatWindow' = <<Bubble(1, "msg ai", history'[1].content)>>
                /\ storage = "ok" => storedHistory' = JSONstringify(history')
           ELSE /\ history' = loaded
                /\ storedHistory' = storedHistory
                /\ Len(chatWindow') = Len(loaded)
                /\ \A i \in 1..Len(loaded) :
                     chatWindow'[i].text = loaded[i].content]_vars

C17_Witness ==
  /\ phase = "ready"
  /\ subs = <<>>
  /\ userName = <<"A", "d", "a">>
  /\ history = <<Msg("assistant", Welcome(userName))>>
  /\ Contains(history[1].content, <<"A", "d", "a">>)
  /\ storedHistory = JSONstringify(history)
  /\ Len(chatWindow) = 1
\* C18: with localStorage working, the initialization that follows a page
\* reload gives back the history the page had when it was reloaded and
\* leaves the persisted value as it is; when the page had appended messages,
\* the last entry of the history at the reload is the last one appended.
C18_ReloadRoundTrip ==
  /\ [][phase = "boot" /\ phase' # "boot" /\ beforeReload # <<>>
          /\ storage = "ok" =>
            /\ phase' = "ready"
            /\ history' = beforeReload
            /\ storedHistory' = storedHistory
            /\ storedHistory' = JSONstringify(beforeReload)]_vars
  /\ [][phase = "ready" /\ phase' = "boot" /\ appendLog # <<>> =>
          Last(beforeReload') = Last(appendLog)]_vars

C18_Witness ==
  /\ phase = "ready"
  /\ storage = "ok"
  /\ appendLog = <<>>
  /\ subs = <<>>
  /\ Len(history) = MAX_HISTORY_MESSAGES
  /\ Last(history) = Msg("assistant", <<"r">>)
  /\ storedHistory = JSONstringify(history)
\* The three notices the handler can show instead of a reply.
Notices == {SERVER_ERROR, NO_REPLY, NETWORK_ERROR}

\* Number of assistant-side bubbles (replies, notices, welcome) in a window.
AiBubbles(win) == Cardinality({i \in 1..Len(win) : win[i].cls = "msg ai"})

\* Number of entries of h that are rendered as assistant-side bubbles.
AiEntries(h) == Cardinality({i \in 1..Len(h) : h[i].role # "user"})

\* C19: a submission issues its request once and never again; the step that
\* ends it adds exactly one assistant-side bubble, a notice or the reply, and
\* appends an assistant entry to the history exactly when that bubble is the
\* reply; no other step of the handler adds such a bubble, so the transcript
\* holds one outcome bubble per finished submission and none for a pending
\* one.
C19_ExactlyOneOutcome ==
  /\ [][\A s \in 1..Len(subs) :
          /\ subs[s].pc # "fetch" => subs'[s].pc # "fetch"
          /\ subs[s].pc = "done" => subs'[s] = subs[s]
          /\ subs'[s].messagesToSend = subs[s].messagesToSend
          /\ Ends(s) =>
               LET out == Last(chatWindow')
               IN  /\ AiBubbles(chatWindow') = AiBubbles(chatWindow) + 1
                   /\ out.id = subs'[s].outEl
                   /\ out.cls = "msg ai"
                   /\ IF out.text \in Notices
                      THEN appendLog' = appendLog /\ history' = history
                      ELSE /\ appendLog' =
                                Append(appendLog, Msg("assistant", out.text))
                           /\ Last(history') = Msg("assistant", out.text)]_vars
  /\ [](phase = "ready" =>
         AiBubbles(chatWindow) =
           AiEntries(initHistory)
             + Cardinality({s \in 1..Len(subs) : subs[s].pc = "done"}))

C19_Witness ==
  /\ Len(subs) = 2
  /\ subs[1].pc = "done"
  /\ subs[2].pc = "done"
  /\ Len(appendLog) = 3
  /\ Last(appendLog).role = "user"
  /\ Last(chatWindow).text = SERVER_ERROR
  /\ AiBubbles(chatWindow) = AiEntries(initHistory) + 2
\* Number of typing indicators in a window.
TypingIndicators(win) ==
  Cardinality({i \in 1..Len(win) : win[i].cls = "msg ai typing"})

\* The element with this id is in the window.
Attached(win, id) == \E i \in 1..Len(win) : win[i].id = id

\* C20: in every state the transcript holds one typing indicator per
\* submission whose fetch has not settled, namely that submission's own, and
\* none for the others; the step that settles a fetch removes the indicator
\* of its submission and leaves every other indicator in place.
C20_IndicatorCount ==
  /\ [](/\ TypingIndicators(chatWindow) =
            Cardinality({s \in 1..Len(subs) : subs[s].pc = "fetch"})
        /\ \A s \in 1..Len(subs) :
             Attached(chatWindow, subs[s].typingEl) <=> subs[s].pc = "fetch")
  /\ [][\A s \in 1..Len(subs) :
          subs[s].pc = "fetch" /\ subs'[s].pc # "fetch" =>
            /\ ~Attached(chatWindow', subs[s].typingEl)
            /\ TypingIndicators(chatWindow') = TypingIndicators(chatWindow) - 1
            /\ \A r \in (1..Len(subs)) \ {s} :
                 Attached(chatWindow', subs[r].typingEl)
                   <=> Attached(chatWindow, subs[r].typingEl)]_vars

C20_Witness ==
  /\ Len(subs) = 2
  /\ subs[1].pc = "fetch"
  /\ subs[2].pc = "done"
  /\ TypingIndicators(chatWindow) = 1
  /\ Attached(chatWindow, subs[1].typingEl)
  /\ ~Attached(chatWindow, subs[2].typingEl)

====
